---- MODULE Spec2Model ----
(***************************************************************************)
(* Fitness diary (src/fitnessapp.py): the passcode gate, the daily-entry   *)
(* computation (macros, BMI, steps conversion, net calories), the diary    *)
(* store and the weekly report.                                            *)
(*                                                                         *)
(* Numbers.  The program computes in IEEE-754 doubles and rounds with      *)
(* Python's round(), which rounds the double's exact binary value to the   *)
(* nearest decimal (half-to-even only when the double is exactly halfway). *)
(* The model keeps every quantity as an exact rational <<n, d>> and every  *)
(* rounded field as an integer count of its last decimal (tenths for one   *)
(* decimal, hundredths for two).  Where the exact value sits on a rounding *)
(* tie, the direction of the double's representation error decides the    *)
(* result; that direction is computed from remainders modulo the small     *)
(* denominators involved (FloatDivErr, FloatMulErr, FloatSubErr).          *)
(***************************************************************************)
EXTENDS Integers, Sequences, FiniteSets, TLC

VARIABLES
    authenticated,   \* st.session_state.authenticated
    password_input,  \* the text last submitted with the Unlock button
    file,            \* DATA_FILE: whether it exists and its JSON object's members
    data,            \* the mapping load_data() returned in the last script run
    page,            \* the sidebar radio's selection
    selected_date,   \* st.session_state.selected_date
    now,             \* the wall clock's day, as days since Epoch
    rendered,        \* what the last script run put on the page
    call             \* a direct call of one function: its arguments and result

vars == <<authenticated, password_input, file, data, page, selected_date,
          now, rendered, call>>

session == <<authenticated, password_input, file, data, page, selected_date,
             now, rendered>>

\* ------------------------------------------------------------ constants

PASSCODE == "1512"

STEPS_PER_MILE == 1200

CAL_PER_MILE == 100

\* ------------------------------------------------------------ bounds

\* Step counts handed to steps_to_miles_calories range over -MaxSteps..MaxSteps.
MaxSteps == 2500

\* The diary holds at most MaxEntries dates.
MaxEntries == 2

\* The session starts on day FirstDay and the clock stops on day LastDay.
FirstDay == 6

LastDay == 7

\* A mass-based food is entered in up to MaxServings base quantities, a
\* count-based food in up to MaxCount pieces.
MaxServings == 2

MaxCount == 2

\* The form's step counts include every count from 0 to MaxFormSteps.
MaxFormSteps == 6

\* ------------------------------------------------------------ integers

Abs(x) == IF x < 0 THEN -x ELSE x

Sign(x) == IF x < 0 THEN -1 ELSE IF x > 0 THEN 1 ELSE 0

RECURSIVE Pow2(_)
Pow2(n) == IF n <= 0 THEN 1 ELSE 2 * Pow2(n - 1)

RECURSIVE Gcd(_, _)
Gcd(a, b) == IF b = 0 THEN a ELSE Gcd(b, a % b)

RECURSIVE IntLog2(_)
IntLog2(x) == IF x < 2 THEN 0 ELSE 1 + IntLog2(x \div 2)

RECURSIVE Doublings(_, _)
Doublings(a, b) == IF a >= b THEN 0 ELSE 1 + Doublings(2 * a, b)

\* floor(log2(a / b)) for a, b > 0: the binary exponent of the double a / b.
FloorLog2(a, b) == IF a >= b THEN IntLog2(a \div b) ELSE -Doublings(a, b)

\* 2^k mod m, by repeated squaring.
RECURSIVE Pow2Mod(_, _)
Pow2Mod(k, m) ==
    IF k <= 0 THEN 1 % m
    ELSE LET h == Pow2Mod(k \div 2, m)
         IN  (h * h * (IF k % 2 = 1 THEN 2 ELSE 1)) % m

\* (a * 2^k) mod m, without forming a * 2^k.
MulPow2Mod(a, k, m) == ((a % m) * Pow2Mod(k, m)) % m

\* n / d (n >= 0, d > 0) rounded to the nearest integer, halves to even.
RoundHalfEven(n, d) ==
    LET q == n \div d
        r == n % d
    IN  IF 2 * r > d \/ (2 * r = d /\ q % 2 = 1) THEN q + 1 ELSE q

\* ------------------------------------------------------------ doubles

\* The double a / b (a, b > 0) is q / 2^k with q the 53-bit integer nearest
\* a * 2^k / b.  FloatDivErr is q * b - a * 2^k: zero when the quotient is
\* exact, positive when the double lies above a / b, negative when below.
FloatDivErr(a, b) ==
    LET k == 52 - FloorLog2(a, b)
        r == MulPow2Mod(a, k, b)
        odd == MulPow2Mod(a, k, 2 * b) >= b
    IN  IF 2 * r < b THEN -r
        ELSE IF 2 * r > b THEN b - r
        ELSE IF odd THEN b - r ELSE -r

\* The double (a / b) * c for an exactly representable a * c / b: the sign of
\* its distance from a * c / b.  The product of the double a / b by c misses
\* a * c / b by c * FloatDivErr / (b * 2^k); it rounds back onto a * c / b
\* unless that exceeds half a unit in the last place of a * c / b.
FloatMulErr(a, b, c) ==
    LET s == FloatDivErr(a, b)
        g == FloorLog2(a * c, b) - FloorLog2(a, b)
    IN  IF 2 * c * Abs(s) > b * Pow2(g) THEN Sign(s) ELSE 0

\* round(x, ndigits) of a non-negative double x whose intended value, scaled
\* by 10^ndigits, is n / d and whose binary error has the sign err: the
\* nearest integer, and on a decimal tie the side the double really is on
\* (half-to-even only when the double is the tie exactly).
PyRound(n, d, err) ==
    IF 2 * (n % d) = d /\ err # 0
    THEN (n \div d) + (IF err > 0 THEN 1 ELSE 0)
    ELSE RoundHalfEven(n, d)

\* ------------------------------------------------------------ steps

\* Faulty variant: calories burned derived from the rounded miles value.
steps_to_miles_calories_rounded_first(steps) ==
    LET a == Abs(steps)
        miles == IF a = 0 THEN 0
                 ELSE PyRound(100 * a, STEPS_PER_MILE, Sign(FloatDivErr(a, STEPS_PER_MILE)))
    IN  <<Sign(steps) * miles, Sign(steps) * ((miles * CAL_PER_MILE) \div 10)>>

\* Faulty variant: non-positive step counts clamped to zero.
steps_to_miles_calories_clamped(steps) ==
    LET a == IF steps < 0 THEN 0 ELSE steps
    IN  IF a = 0 THEN <<0, 0>>
        ELSE <<PyRound(100 * a, STEPS_PER_MILE, Sign(FloatDivErr(a, STEPS_PER_MILE))),
               PyRound(10 * a * CAL_PER_MILE, STEPS_PER_MILE,
                       FloatMulErr(a, STEPS_PER_MILE, CAL_PER_MILE))>>

\* steps_to_miles_calories: <<miles in hundredths, cal_burned in tenths>>.
\* miles = steps / STEPS_PER_MILE and cal_burned = miles * CAL_PER_MILE are
\* both computed before either is rounded.  Division, multiplication and
\* round() are symmetric in the sign of their argument.
steps_to_miles_calories(steps) ==
    LET a == Abs(steps)
    IN  IF a = 0 THEN <<0, 0>>
        ELSE <<Sign(steps) * PyRound(100 * a, STEPS_PER_MILE,
                                     Sign(FloatDivErr(a, STEPS_PER_MILE))),
               Sign(steps) * PyRound(10 * a * CAL_PER_MILE, STEPS_PER_MILE,
                                     FloatMulErr(a, STEPS_PER_MILE, CAL_PER_MILE))>>

\* ------------------------------------------------------------ rationals

\* A number is an exact rational <<n, d>> with d > 0 in lowest terms; None is
\* a tuple of its own.
None == <<"None">>

Rat(n, d) ==
    LET g == Gcd(Abs(n), Abs(d))
        s == IF d < 0 THEN -1 ELSE 1
    IN  <<s * (n \div g), s * (d \div g)>>

Num(n) == <<n, 1>>

Zero == Num(0)

RAdd(x, y) == Rat(x[1] * y[2] + y[1] * x[2], x[2] * y[2])

RSub(x, y) == Rat(x[1] * y[2] - y[1] * x[2], x[2] * y[2])

RMul(x, y) == Rat(x[1] * y[1], x[2] * y[2])

RDiv(x, y) == Rat(x[1] * y[2], x[2] * y[1])

RLeq(x, y) == x[1] * y[2] <= y[1] * x[2]

\* Python truthiness of a number or None.
Truthy(x) == x # None /\ x[1] # 0

\* round(x, 1) and round(x, 2) of a double that holds the rational x exactly,
\* or that is not on a rounding tie: the result as a rational.
Round1(x) == Rat(Sign(x[1]) * RoundHalfEven(10 * Abs(x[1]), x[2]), 10)

Round2(x) == Rat(Sign(x[1]) * RoundHalfEven(100 * Abs(x[1]), x[2]), 100)

\* ------------------------------------------------------------ food table

\* FOOD_DATA, nutrition figures in tenths (carbs 2.5 is 25).
FOOD_DATA ==
    [Oats |-> [unit |-> "g", base |-> 45, cal |-> 1700, protein |-> 100, carbs |-> 280, fat |-> 0]]
    @@ ("Whey Protein" :> [unit |-> "g", base |-> 34, cal |-> 1200, protein |-> 250, carbs |-> 25, fat |-> 0])
    @@ ("Skim Milk Powder" :> [unit |-> "g", base |-> 40, cal |-> 1600, protein |-> 160, carbs |-> 180, fat |-> 0])
    @@ ("PB Powder" :> [unit |-> "g", base |-> 16, cal |-> 800, protein |-> 70, carbs |-> 62, fat |-> 0])
    @@ ("Nuts" :> [unit |-> "g", base |-> 15, cal |-> 950, protein |-> 20, carbs |-> 40, fat |-> 90])
    @@ ("White Rice" :> [unit |-> "g", base |-> 150, cal |-> 2100, protein |-> 50, carbs |-> 720, fat |-> 5])
    @@ ("Tomato" :> [unit |-> "count", cal |-> 200, protein |-> 0, carbs |-> 0, fat |-> 0])
    @@ ("Onion" :> [unit |-> "count", cal |-> 350, protein |-> 0, carbs |-> 0, fat |-> 0])
    @@ ("Yogurt" :> [unit |-> "g", base |-> 170, cal |-> 900, protein |-> 180, carbs |-> 70, fat |-> 0])
    @@ ("Tortilla" :> [unit |-> "count", cal |-> 700, protein |-> 50, carbs |-> 120, fat |-> 20])
    @@ ("Soya Chunks" :> [unit |-> "g", base |-> 30, cal |-> 1400, protein |-> 300, carbs |-> 60, fat |-> 10])
    @@ ("Whey Protein Shake" :> [unit |-> "g", base |-> 34, cal |-> 1200, protein |-> 250, carbs |-> 20, fat |-> 0])

Tenths(v) == Rat(v, 10)

\* ------------------------------------------------------------ macros

NoMacros == [cal |-> Zero, protein |-> Zero, carbs |-> Zero, fat |-> Zero]

MacrosAdd(t, u) ==
    [cal |-> RAdd(t.cal, u.cal), protein |-> RAdd(t.protein, u.protein),
     carbs |-> RAdd(t.carbs, u.carbs), fat |-> RAdd(t.fat, u.fat)]

\* Faulty variant: a count-based food also adds its table carbs and fat.
FoodMacrosCountAll(food, qty) ==
    IF qty = None \/ qty[1] = 0 THEN NoMacros
    ELSE IF food \notin DOMAIN FOOD_DATA THEN NoMacros
    ELSE LET info == FOOD_DATA[food]
             ratio == IF info.unit = "g" THEN RDiv(qty, Num(info.base)) ELSE qty
         IN  [cal |-> RMul(Tenths(info.cal), ratio),
              protein |-> RMul(Tenths(info.protein), ratio),
              carbs |-> RMul(Tenths(info.carbs), ratio),
              fat |-> RMul(Tenths(info.fat), ratio)]

\* One pass of calculate_macros' loop body: what (food, qty) adds to total.
FoodMacros(food, qty) ==
    IF qty = None \/ qty[1] = 0 THEN NoMacros
    ELSE IF food \notin DOMAIN FOOD_DATA THEN NoMacros
    ELSE LET info == FOOD_DATA[food]
         IN  IF info.unit = "g"
             THEN LET ratio == RDiv(qty, Num(info.base))
                  IN  [cal |-> RMul(Tenths(info.cal), ratio),
                       protein |-> RMul(Tenths(info.protein), ratio),
                       carbs |-> RMul(Tenths(info.carbs), ratio),
                       fat |-> RMul(Tenths(info.fat), ratio)]
             ELSE IF info.unit = "count"
             THEN [cal |-> RMul(Tenths(info.cal), qty),
                   protein |-> RMul(Tenths(info.protein), qty),
                   carbs |-> Zero, fat |-> Zero]
             ELSE NoMacros

RECURSIVE MacrosOver(_, _)
MacrosOver(food_inputs, foods) ==
    IF foods = {} THEN NoMacros
    ELSE LET food == CHOOSE f \in foods : TRUE
         IN  MacrosAdd(FoodMacros(food, food_inputs[food]),
                       MacrosOver(food_inputs, foods \ {food}))

calculate_macros(food_inputs) == MacrosOver(food_inputs, DOMAIN food_inputs)

\* ------------------------------------------------------------ bmi

\* calculate_bmi: None for a non-positive weight or height, else
\* weight / (height_cm / 100)^2 rounded to two decimals.
calculate_bmi(weight, height_cm) ==
    IF weight[1] <= 0 \/ height_cm[1] <= 0 THEN None
    ELSE LET height_m == RDiv(height_cm, Num(100))
         IN  Round2(RDiv(weight, RMul(height_m, height_m)))

\* ------------------------------------------------------------ net calories

\* total - cal_burned where the exact difference is a tie of round(., 1):
\* which side of the tie the computed double is on, in magnitude (1 above,
\* -1 below, 0 on it).  cal_burned is the double nearest k / 10; unless k / 10
\* is itself a double (5 divides k) it is off by FloatDivErr(k, 10) / 10 units
\* in its last place.  total is a double holding its value exactly.  The
\* subtraction is exact when the difference is no larger than cal_burned;
\* otherwise it rounds once more, to the last place of the difference.
FloatSubErr(total, cal_burned) ==
    LET k == cal_burned[1] * (10 \div cal_burned[2])
        T == RSub(total, cal_burned)
        an == Abs(T[1]) * (20 \div T[2])
        sg == Sign(T[1])
        s1 == FloatDivErr(k, 10)
        ec == FloorLog2(k, 10)
        eU == FloorLog2(an, 20)
        g == IF eU - ec > 4 THEN 4 ELSE eU - ec
        j == MulPow2Mod(an, 52 - eU, 20)
        odd == MulPow2Mod(an, 52 - eU, 40) >= 20
        A == j * Pow2(g) - 2 * sg * s1
        B == 20 * Pow2(g)
    IN  IF k % 5 = 0 THEN 0
        ELSE IF eU <= ec THEN Sign(-sg * s1)
        ELSE IF 2 * A > B \/ (2 * A = B /\ odd) THEN 1 ELSE -1

\* Faulty variant: net calories taken from the rounded total.
NetCaloriesFromRounded(total, cal_burned) == RSub(Round1(total), cal_burned)

\* round(total_calories - cal_burned, 1) with total_calories the unrounded sum
\* and cal_burned the value steps_to_miles_calories returned.
NetCalories(total, cal_burned) ==
    LET T == RSub(total, cal_burned)
        err == IF (10 * T[1]) % T[2] # 0 /\ (20 * T[1]) % T[2] = 0
               THEN FloatSubErr(total, cal_burned) ELSE 0
    IN  Rat(Sign(T[1]) * PyRound(10 * Abs(T[1]), T[2], err), 10)

\* ------------------------------------------------------------ dates

\* Day 0 of the model's clock.
Epoch == <<2024, 2, 25>>

IsLeap(y) == (y % 4 = 0 /\ y % 100 # 0) \/ y % 400 = 0

DaysInMonth(y, m) ==
    IF m = 2 THEN (IF IsLeap(y) THEN 29 ELSE 28)
    ELSE IF m \in {4, 6, 9, 11} THEN 30 ELSE 31

NextDay(d) ==
    IF d[3] < DaysInMonth(d[1], d[2]) THEN <<d[1], d[2], d[3] + 1>>
    ELSE IF d[2] < 12 THEN <<d[1], d[2] + 1, 1>>
    ELSE <<d[1] + 1, 1, 1>>

PrevDay(d) ==
    IF d[3] > 1 THEN <<d[1], d[2], d[3] - 1>>
    ELSE IF d[2] > 1 THEN <<d[1], d[2] - 1, DaysInMonth(d[1], d[2] - 1)>>
    ELSE <<d[1] - 1, 12, 31>>

RECURSIVE AddDays(_, _)
AddDays(d, n) ==
    IF n = 0 THEN d
    ELSE IF n > 0 THEN AddDays(NextDay(d), n - 1)
    ELSE AddDays(PrevDay(d), n + 1)

\* strftime("%Y-%m-%d") of the day n days after Epoch: the zero-padded fields
\* year, month, day, in the order the string holds them.
DateStr(n) == AddDays(Epoch, n)

\* Python's <= on two "YYYY-MM-DD" strings: character by character, which for
\* zero-padded fields is field by field from the left.
StrLeq(a, b) ==
    \/ a[1] < b[1]
    \/ a[1] = b[1] /\ a[2] < b[2]
    \/ a[1] = b[1] /\ a[2] = b[2] /\ a[3] <= b[3]

\* sorted() of a set of date strings.
RECURSIVE Sorted(_)
Sorted(S) ==
    IF S = {} THEN <<>>
    ELSE LET m == CHOOSE x \in S : \A y \in S : StrLeq(x, y)
         IN  <<m>> \o Sorted(S \ {m})

\* ------------------------------------------------------------ diary store

\* A dict is the sequence of its <<key, value>> items in insertion order.
KeySet(d) == {d[i][1] : i \in 1..Len(d)}

Lookup(d, k) == d[CHOOSE i \in 1..Len(d) : d[i][1] = k][2]

\* Faulty variant: the saved mapping holds the new entry alone.
DictSetOnly(d, k, v) == <<<<k, v>>>>

\* d[k] = v: an existing key keeps its place, a new key goes last.
DictSet(d, k, v) ==
    IF k \in KeySet(d)
    THEN [i \in 1..Len(d) |-> IF d[i][1] = k THEN <<k, v>> ELSE d[i]]
    ELSE Append(d, <<k, v>>)

\* dict(g, **f): the keys of both, f's value where both have one.
Merge(f, g) == [k \in DOMAIN f \cup DOMAIN g |-> IF k \in DOMAIN f THEN f[k] ELSE g[k]]

\* e.get(k, default) on an entry.
Get(e, k, default) == IF k \in DOMAIN e THEN e[k] ELSE default

NoFile == [exists |-> FALSE, members |-> <<>>]

\* load_data: the file's JSON object, members in file order, or {} when the
\* file does not exist.
load_data(f) == IF f.exists THEN f.members ELSE <<>>

\* save_data: the file rewritten whole from the mapping.
save_data(d) == [exists |-> TRUE, members |-> d]

NotLoaded == [loaded |-> FALSE, items |-> <<>>]

Loaded(d) == [loaded |-> TRUE, items |-> d]

\* get_entry: the stored entry, or the blank one.
get_entry(d, date_str) ==
    IF date_str \in KeySet(d) THEN Lookup(d, date_str)
    ELSE [date |-> date_str, weight |-> None, height |-> None, age |-> None,
          bmi |-> None, steps |-> Zero, workout_notes |-> "",
          food |-> <<>>, extra_food |-> <<>>, total_calories |-> Zero,
          total_protein |-> Zero, net_calories |-> Zero]

\* ------------------------------------------------------------ save entry

RECURSIVE SumField(_, _)
SumField(items, field) ==
    IF items = <<>> THEN Zero
    ELSE RAdd(Get(Head(items), field, Zero), SumField(Tail(items), field))

\* Faulty variant: the totals of the stored entry are added to, not replaced.
SaveEntryFieldsIncremental(entry, inp, date_str) ==
    LET macros == calculate_macros(inp.food)
        total_calories == RAdd(macros.cal, SumField(inp.extra_food, "calories"))
        total_protein == RAdd(macros.protein, SumField(inp.extra_food, "protein"))
        mc == steps_to_miles_calories(inp.steps[1])
        cal_burned == Rat(mc[2], 10)
        was == Get(entry, "total_calories", Zero)
    IN  Merge([food |-> inp.food, extra_food |-> inp.extra_food,
               weight |-> inp.weight, height |-> inp.height, age |-> inp.age,
               steps |-> inp.steps, workout_notes |-> inp.workout_notes,
               bmi |-> calculate_bmi(inp.weight, inp.height),
               total_calories |-> Round1(RAdd(was, total_calories)),
               total_protein |-> Round1(total_protein),
               miles_walked |-> Rat(mc[1], 100),
               calories_burned |-> cal_burned,
               net_calories |-> NetCalories(RAdd(was, total_calories), cal_burned),
               date |-> date_str], entry)

\* The body of the Save Entry branch: the entry get_entry returned with every
\* key the handler assigns replaced, its other keys kept.
SaveEntryFields(entry, inp, date_str) ==
    LET macros == calculate_macros(inp.food)
        total_calories == RAdd(macros.cal, SumField(inp.extra_food, "calories"))
        total_protein == RAdd(macros.protein, SumField(inp.extra_food, "protein"))
        mc == steps_to_miles_calories(inp.steps[1])
        cal_burned == Rat(mc[2], 10)
    IN  Merge([food |-> inp.food, extra_food |-> inp.extra_food,
               weight |-> inp.weight, height |-> inp.height, age |-> inp.age,
               steps |-> inp.steps, workout_notes |-> inp.workout_notes,
               bmi |-> calculate_bmi(inp.weight, inp.height),
               total_calories |-> Round1(total_calories),
               total_protein |-> Round1(total_protein),
               miles_walked |-> Rat(mc[1], 100),
               calories_burned |-> cal_burned,
               net_calories |-> NetCalories(total_calories, cal_burned),
               date |-> date_str], entry)

\* ------------------------------------------------------------ weekly report

Dash == [text |-> "-"]

Number(x) == [text |-> "number", value |-> x]

\* One row of the PDF's summary table.
ReportRow(e) ==
    LET weight == Get(e, "weight", None)
        calories == Get(e, "total_calories", Zero)
        proteins == Get(e, "total_protein", Zero)
        net_calories == Get(e, "net_calories", Zero)
        bmi == Get(e, "bmi", None)
    IN  [date |-> e.date,
         weight |-> IF Truthy(weight) THEN Number(weight) ELSE Dash,
         total_calories |-> IF Truthy(calories) THEN Number(Round1(calories)) ELSE Number(Zero),
         total_protein |-> IF Truthy(proteins) THEN Number(Round1(proteins)) ELSE Number(Zero),
         net_calories |-> IF Truthy(net_calories) THEN Number(Round1(net_calories)) ELSE Number(Zero),
         bmi |-> IF Truthy(bmi) THEN Number(bmi) ELSE Dash]

InRange(k, start_date, end_date) == StrLeq(start_date, k) /\ StrLeq(k, end_date)

\* [v for k, v in data.items() if start_date <= k <= end_date]
RECURSIVE RangeEntries(_, _, _)
RangeEntries(d, start_date, end_date) ==
    IF d = <<>> THEN <<>>
    ELSE (IF InRange(Head(d)[1], start_date, end_date) THEN <<Head(d)[2]>> ELSE <<>>)
         \o RangeEntries(Tail(d), start_date, end_date)

\* No PDF written: what generate_weekly_report leaves when it returns None.
NoReport == [filename |-> None, rows |-> <<>>]

\* generate_weekly_report: None without entries in the range, else the name
\* of the PDF it wrote, with the rows of the PDF's table.
generate_weekly_report(d, start_date, end_date) ==
    LET entries == RangeEntries(d, start_date, end_date)
    IN  IF entries = <<>> THEN NoReport
        ELSE [filename |-> <<"weekly_report", start_date, "to", end_date>>,
              rows |-> [i \in 1..Len(entries) |-> ReportRow(entries[i])]]

\* Faulty variant: a window of eight days.
SevenDaysAgoOffByOne(today) == today - 7

\* today - timedelta(days=6)
SevenDaysAgo(today) == today - 6

\* The dates the Weekly Report page keeps: sorted(d for d in data.keys() if
\* seven_days_ago <= d <= today_str).
FilteredDates(d, today) ==
    Sorted({k \in KeySet(d) : InRange(k, DateStr(SevenDaysAgo(today)), DateStr(today))})

SummaryColumns == {"weight", "total_calories", "total_protein", "net_calories", "bmi"}

\* What the Weekly Report page shows for the mapping d on day today.  The
\* charts and the summary table are both drawn from filtered_data.
WeeklyPage(d, today) ==
    IF Len(d) = 0
    THEN [kind |-> "info", page |-> "Weekly Report", text |-> "No data available to generate report."]
    ELSE LET filtered_dates == FilteredDates(d, today)
         IN  IF filtered_dates = <<>>
             THEN [kind |-> "info", page |-> "Weekly Report", text |-> "No data in last 7 days."]
             ELSE [kind |-> "weekly", page |-> "Weekly Report", today |-> today,
                   dates |-> filtered_dates,
                   table |-> [i \in 1..Len(filtered_dates) |->
                                 [c \in SummaryColumns \cap DOMAIN Lookup(d, filtered_dates[i]) |->
                                     Lookup(d, filtered_dates[i])[c]]],
                   pdf |-> NoReport]

Pages == {"Enter Daily Data", "Weight & BMI", "History", "Weekly Report"}

\* What one script run shows below the sidebar, no button pressed.
Render(p, d, date_str, today) ==
    IF p = "Weekly Report" THEN WeeklyPage(d, today)
    ELSE [kind |-> "page", page |-> p, date |-> date_str]

\* ------------------------------------------------------------ inputs

Foods == DOMAIN FOOD_DATA

\* The form's food dict: one key per food of the three meals.
FoodDict(food, qty) == [f \in Foods |-> IF f = food THEN qty ELSE Zero]

\* Quantities entered for a food.  Every quantity is one a double holds
\* exactly.  A quarter gram is entered only for PB Powder, whose base 16 keeps
\* the scaled figures exact (0.25 g is 1.25 kcal, a tie of round(., 1)); the
\* other quantities put no total on a tie.
QtyChoices(food) ==
    IF food \in Foods /\ FOOD_DATA[food].unit = "count"
    THEN {Num(k) : k \in 0..MaxCount}
    ELSE {Zero, Num(10)}
         \cup (IF food \in Foods
               THEN {Num(k * FOOD_DATA[food].base) : k \in 1..MaxServings} ELSE {})
         \cup (IF food = "PB Powder" THEN {Rat(1, 4), Rat(3, 4)} ELSE {})

FormInput(food, steps, weight, height) ==
    [food |-> food, extra_food |-> <<>>, weight |-> weight, height |-> height,
     age |-> Num(30), steps |-> Num(steps), workout_notes |-> ""]

\* The inputs of the session: the worked example of the documentation (Oats
\* 90 g, 2400 steps, 70 kg, 170 cm) and a quarter gram of PB Powder with 6
\* steps.
SessionInputs ==
    {FormInput(FoodDict("Oats", Num(90)), 2400, Num(70), Num(170)),
     FormInput(FoodDict("PB Powder", Rat(1, 4)), 6, Num(70), Num(170))}

BodyChoices == {<<Num(70), Num(170)>>, <<Rat(161, 2), Rat(351, 2)>>}

\* The inputs the Save Entry handler is checked on: PB Powder by the quarter
\* gram and by the base quantity with every small step count, and the other
\* foods with round step counts and both bodies.
EntryInputs ==
    {FormInput(FoodDict("PB Powder", q), n, Num(70), Num(170)) :
        q \in {Rat(1, 4), Rat(3, 4), Num(FOOD_DATA["PB Powder"].base)},
        n \in 0..MaxFormSteps}
    \cup {FormInput(FoodDict("Oats", q), n, b[1], b[2]) :
            q \in {Num(10), Num(90)}, n \in {100, 2400}, b \in BodyChoices}
    \cup {FormInput(FoodDict("Tortilla", Num(MaxCount)), 0, b[1], b[2]) : b \in BodyChoices}

ExtraItems ==
    {[name |-> "", calories |-> Zero, protein |-> Zero],
     [name |-> "Snack", calories |-> Rat(1, 4), protein |-> Rat(5, 2)],
     [name |-> "Snack", calories |-> Num(150), protein |-> Zero]}

ExtraLists == {<<>>} \cup {<<x>> : x \in ExtraItems}

\* The selectable dates: two early days, and the days around the clock's.
Days == {0, 1} \cup (FirstDay .. LastDay + 1)

Passcodes == {PASSCODE, "", "1513"}

\* ------------------------------------------------------------ actions

NoCall == [fn |-> "none", args |-> <<>>, done |-> FALSE, ret |-> <<>>]

\* Faulty variant: any passcode unlocks.
PasscodeAny(pw) == TRUE

\* password_input == PASSCODE
PasscodeMatches(pw) == pw = PASSCODE

\* The Unlock button.  A matching passcode sets the flag and reruns the
\* script, which now passes the gate: it loads the data, creates the sidebar
\* (first page, today's date) and shows the page.  Any other passcode shows
\* an error and the script stops.
Unlock(pw) ==
    /\ ~authenticated
    /\ password_input' = pw
    /\ IF PasscodeMatches(pw)
       THEN /\ authenticated' = TRUE
            /\ data' = Loaded(load_data(file))
            /\ page' = "Enter Daily Data"
            /\ selected_date' = DateStr(now)
            /\ rendered' = Render(page', data'.items, selected_date', now)
       ELSE /\ rendered' = [kind |-> "error", text |-> "Incorrect passcode!"]
            /\ UNCHANGED <<authenticated, data, page, selected_date>>
    /\ UNCHANGED <<file, now, call>>

\* The sidebar radio.
SelectPage(p) ==
    /\ authenticated
    /\ page' = p
    /\ data' = Loaded(load_data(file))
    /\ rendered' = Render(p, data'.items, selected_date, now)
    /\ UNCHANGED <<authenticated, password_input, file, selected_date, now, call>>

\* The sidebar date input.
SelectDate(n) ==
    /\ authenticated
    /\ selected_date' = DateStr(n)
    /\ data' = Loaded(load_data(file))
    /\ rendered' = Render(page, data'.items, selected_date', now)
    /\ UNCHANGED <<authenticated, password_input, file, page, now, call>>

\* The Add Extra Food button: a blank item joins the list of this run only.
AddExtraFood ==
    /\ authenticated
    /\ page = "Enter Daily Data"
    /\ data' = Loaded(load_data(file))
    /\ rendered' = [kind |-> "form", page |-> page, date |-> selected_date,
                    extra_foods |-> Len(Get(get_entry(data'.items, selected_date),
                                            "extra_food", <<>>)) + 1]
    /\ UNCHANGED <<authenticated, password_input, file, page, selected_date, now, call>>

\* The Save Entry button.  The form shows one row per stored extra food, so
\* the submitted list is as long as the stored one.
SaveEntry(inp) ==
    /\ authenticated
    /\ page = "Enter Daily Data"
    /\ LET d == load_data(file)
           entry == get_entry(d, selected_date)
           saved == DictSet(d, selected_date, SaveEntryFields(entry, inp, selected_date))
       IN  /\ Len(inp.extra_food) = Len(Get(entry, "extra_food", <<>>))
           /\ selected_date \in KeySet(d) \/ Len(d) < MaxEntries
           /\ file' = save_data(saved)
           /\ data' = Loaded(saved)
           /\ rendered' = [kind |-> "saved", page |-> page, date |-> selected_date,
                           inputs |-> inp, overwrote |-> selected_date \in KeySet(d)]
    /\ UNCHANGED <<authenticated, password_input, page, selected_date, now, call>>

\* The Download Weekly PDF Report button, shown under the summary table.
DownloadPDF ==
    /\ authenticated
    /\ page = "Weekly Report"
    /\ LET d == load_data(file)
           shown == WeeklyPage(d, now)
       IN  /\ shown.kind = "weekly"
           /\ data' = Loaded(d)
           /\ rendered' = [shown EXCEPT !.pdf =
                  generate_weekly_report(d, shown.dates[1], shown.dates[Len(shown.dates)])]
    /\ UNCHANGED <<authenticated, password_input, file, page, selected_date, now, call>>

\* Midnight passes.
Tick ==
    /\ now < LastDay
    /\ now' = now + 1
    /\ UNCHANGED <<authenticated, password_input, file, data, page, selected_date,
                   rendered, call>>

\* A new session in front of the passcode prompt: nothing loaded, no sidebar.
SessionStart ==
    /\ authenticated = FALSE
    /\ password_input = ""
    /\ file = NoFile
    /\ data = NotLoaded
    /\ page = ""
    /\ selected_date = None
    /\ now = FirstDay
    /\ rendered = [kind |-> "locked"]

Init == SessionStart /\ call = NoCall

Next ==
    \/ \E pw \in Passcodes : Unlock(pw)
    \/ \E p \in Pages : SelectPage(p)
    \/ \E n \in Days : SelectDate(n)
    \/ AddExtraFood
    \/ \E inp \in SessionInputs : SaveEntry(inp)
    \/ DownloadPDF
    \/ Tick

Spec == Init /\ [][Next]_vars

\* ------------------------------------------------------------ the session's properties

StoredDates == KeySet(file.members)

PDFWritten == rendered.kind = "weekly" /\ rendered.pdf.filename # None

\* C3: the entries of the PDF report are exactly the stored entries dated
\* from the report's start to its end, both included, in ascending date order
\* whatever the order they were saved in.
C3_RangeSelectionAscending ==
    PDFWritten =>
        LET rows == rendered.pdf.rows
            start_date == rendered.dates[1]
            end_date == rendered.dates[Len(rendered.dates)]
        IN  /\ {rows[i].date : i \in 1..Len(rows)}
                  = {k \in StoredDates : InRange(k, start_date, end_date)}
            /\ \A i \in 1..Len(rows), j \in 1..Len(rows) :
                  i < j => StrLeq(rows[i].date, rows[j].date) /\ rows[i].date # rows[j].date

\* C5: no step removes a date from the store, and a step changes the entry
\* stored under a date only if it is a Save Entry for that date.
C5_SaveChangesOnlyItsDate ==
    [][\A k \in StoredDates :
          /\ k \in KeySet(file'.members)
          /\ Lookup(file'.members, k) # Lookup(file.members, k)
                => rendered'.kind = "saved" /\ rendered'.date = k]_vars

\* An entry saved over a stored one while another date is stored as well.
C5_Witness ==
    /\ rendered.kind = "saved"
    /\ rendered.overwrote
    /\ Cardinality(StoredDates) >= 2

\* C9: the Weekly Report page drawn on day T shows exactly the stored entries
\* dated T-6 .. T, in date order, whatever the selected date and the stored
\* values are.
C9_WindowIsTrailingSevenDays ==
    rendered.kind = "weekly" =>
        LET T == rendered.today
            window == {DateStr(n) : n \in (T - 6)..T}
            shown == {rendered.dates[i] : i \in 1..Len(rendered.dates)}
        IN  /\ shown = StoredDates \cap window
            /\ Len(rendered.dates) = Cardinality(shown)
            /\ Len(rendered.table) = Len(rendered.dates)
            /\ \A i \in 1..Len(rendered.dates) : \A c \in SummaryColumns :
                  rendered.table[i][c] = Lookup(file.members, rendered.dates[i])[c]

\* The page drawn with entries stored on day T-7 and on day T-6: only the
\* latter is shown.
C9_Witness ==
    /\ rendered.kind = "weekly"
    /\ DateStr(rendered.today - 7) \in StoredDates
    /\ rendered.dates = <<DateStr(rendered.today - 6)>>
    /\ selected_date # DateStr(rendered.today)

\* C10: while the authenticated flag is false nothing is loaded, saved or
\* reported; the flag turns true only in a step that submits PASSCODE, and
\* once true it stays true.
C10_PasscodeGate ==
    [][/\ ~authenticated' =>
             /\ data' = NotLoaded
             /\ file' = file
             /\ rendered'.kind \in {"locked", "error"}
       /\ ~authenticated /\ authenticated' => password_input' = PASSCODE
       /\ ~authenticated /\ password_input' # PASSCODE => ~authenticated'
       /\ authenticated => authenticated']_vars

\* A session unlocked with the passcode that has saved an entry.
C10_Witness ==
    /\ authenticated
    /\ password_input = PASSCODE
    /\ file.exists
    /\ data.loaded

\* ------------------------------------------------------------ steps_to_miles_calories, called directly

Pending(fn, args) == [fn |-> fn, args |-> args, done |-> FALSE, ret |-> <<>>]

Returned(c, ret) == [c EXCEPT !.done = TRUE, !.ret = ret]

InitSteps ==
    /\ SessionStart
    /\ call \in {Pending("steps_to_miles_calories", steps) : steps \in -MaxSteps..MaxSteps}

CallSteps ==
    /\ call.fn = "steps_to_miles_calories"
    /\ ~call.done
    /\ call' = Returned(call, steps_to_miles_calories(call.args))
    /\ UNCHANGED session

NextSteps == CallSteps

SpecSteps == InitSteps /\ [][NextSteps]_vars

StepsReturned == call.fn = "steps_to_miles_calories" /\ call.done

\* C1 as stated: miles is steps/1200 rounded to two decimals and the calories
\* burned are that rounded miles value times 100 (in tenths: ten times the
\* hundredths of miles).
C1_CaloriesFromRoundedMiles ==
    StepsReturned =>
        /\ 2 * Abs(STEPS_PER_MILE * call.ret[1] - 100 * call.args) <= STEPS_PER_MILE
        /\ call.ret[2] = (call.ret[1] * CAL_PER_MILE) \div 10

\* C1 amended: miles is steps/1200 rounded to two decimals, and the calories
\* burned are the unrounded steps/1200 times 100, rounded to one decimal: each
\* result is a nearest decimal of the exact quotient.
C1_CaloriesFromUnroundedMiles ==
    StepsReturned =>
        /\ 2 * Abs(STEPS_PER_MILE * call.ret[1] - 100 * call.args) <= STEPS_PER_MILE
        /\ 2 * Abs(STEPS_PER_MILE * call.ret[2] - 10 * CAL_PER_MILE * call.args)
               <= STEPS_PER_MILE

\* 100 steps: 0.08 miles and 8.3 kcal, where the rounded miles would give 8.0.
C1_Witness == StepsReturned /\ call.args = 100 /\ call.ret = <<8, 83>>

\* C6 as stated: a step count of zero or below returns 0 for both results.
C6_NonPositiveGivesZero ==
    StepsReturned /\ call.args <= 0 => call.ret = <<0, 0>>

\* C6 amended: zero steps return 0 for both results; a negative step count
\* returns without error the non-positive quotients, steps/1200 rounded to two
\* decimals and steps/12 rounded to one decimal, the calories always below 0.
C6_NonPositiveGivesQuotient ==
    StepsReturned /\ call.args <= 0 =>
        /\ call.ret[1] <= 0
        /\ call.ret[2] <= 0
        /\ call.ret[2] = 0 <=> call.args = 0
        /\ 2 * Abs(STEPS_PER_MILE * call.ret[1] - 100 * call.args) <= STEPS_PER_MILE
        /\ 2 * Abs(12 * call.ret[2] - 10 * call.args) <= 12

\* -1200 steps: -1.0 miles and -100.0 kcal.
C6_Witness == StepsReturned /\ call.args = -1200 /\ call.ret = <<-100, -1000>>

\* ------------------------------------------------------------ calculate_macros, called directly

\* Food dicts with up to two foods entered, and dicts with a key the table
\* does not hold.
MacroInputs ==
    {[f \in Foods |-> IF f = f1 THEN q1 ELSE IF f = f2 THEN q2 ELSE Zero] :
        f1 \in Foods, q1 \in QtyChoices("Oats") \cup QtyChoices("Tortilla"),
        f2 \in {"Oats", "PB Powder", "Tortilla"}, q2 \in {Zero, Num(MaxCount)}}
    \cup {Merge(FoodDict(f, Num(MaxCount)), [Pizza |-> q]) :
            f \in {"Oats", "Tortilla"}, q \in {Zero, Num(MaxCount)}}

InitMacros ==
    /\ SessionStart
    /\ call \in {Pending("calculate_macros", food_inputs) : food_inputs \in MacroInputs}

CallMacros ==
    /\ call.fn = "calculate_macros"
    /\ ~call.done
    /\ call' = Returned(call, calculate_macros(call.args))
    /\ UNCHANGED session

NextMacros == CallMacros

SpecMacros == InitMacros /\ [][NextMacros]_vars

MacrosReturned == call.fn = "calculate_macros" /\ call.done

\* What the claim has one food add to one total: the table figure times the
\* quantity for the calories and protein of a count-based food and nothing for
\* its carbs and fat; the table figure times quantity / base for a mass-based
\* food.
C8_Share(food, qty, field) ==
    IF food \notin Foods THEN Zero
    ELSE IF FOOD_DATA[food].unit = "count"
    THEN IF field \in {"cal", "protein"}
         THEN Rat(FOOD_DATA[food][field] * qty[1], 10 * qty[2])
         ELSE Zero
    ELSE Rat(FOOD_DATA[food][field] * qty[1], 10 * qty[2] * FOOD_DATA[food].base)

RECURSIVE C8_Sum(_, _, _)
C8_Sum(food_inputs, foods, field) ==
    IF foods = {} THEN Zero
    ELSE LET food == CHOOSE f \in foods : TRUE
         IN  RAdd(C8_Share(food, food_inputs[food], field),
                  C8_Sum(food_inputs, foods \ {food}, field))

\* C8: calculate_macros returns, for each of calories, protein, carbs and fat,
\* the sum of the foods' shares: cal*q and protein*q and no carbs or fat for a
\* count-based food, every figure scaled by q/base for a mass-based food.
C8_CountFoodsAddNoCarbsOrFat ==
    MacrosReturned =>
        \A field \in {"cal", "protein", "carbs", "fat"} :
            call.ret[field] = C8_Sum(call.args, DOMAIN call.args, field)

\* Two tortillas with 90 g of oats: 480 kcal, and the oats' 56 g of carbs only.
C8_Witness ==
    /\ MacrosReturned
    /\ "Pizza" \notin DOMAIN call.args
    /\ call.args["Tortilla"] = Num(2)
    /\ call.args["Oats"] = Num(90)
    /\ call.ret.cal = Num(480)
    /\ call.ret.carbs = Num(56)
    /\ call.ret.fat = Zero

\* ------------------------------------------------------------ generate_weekly_report, called directly

\* Entries as a diary file may hold them: every summary field present with a
\* value, present with zero, or missing (a file written by hand or by an
\* earlier version), and weight and bmi also None.
ReportFieldChoices(field) ==
    IF field = "weight" THEN {None, Zero, Num(70)}
    ELSE IF field = "bmi" THEN {None, Zero, Rat(2422, 100)}
    ELSE IF field = "total_calories" THEN {Zero, Num(340)}
    ELSE IF field = "total_protein" THEN {Zero, Num(20)}
    ELSE {Zero, Num(140)}

ReportEntries(date_str) ==
    LET values == UNION {ReportFieldChoices(c) : c \in SummaryColumns}
    IN  {Merge([date |-> date_str], e) :
            e \in UNION {{x \in [present -> values] :
                            \A c \in present : x[c] \in ReportFieldChoices(c)} :
                         present \in SUBSET SummaryColumns}}

InitReport ==
    /\ SessionStart
    /\ call \in {Pending("generate_weekly_report",
                         <<<<<<DateStr(FirstDay), e>>>>, DateStr(n), DateStr(LastDay)>>) :
                    e \in ReportEntries(DateStr(FirstDay)), n \in {FirstDay, LastDay}}

CallReport ==
    /\ call.fn = "generate_weekly_report"
    /\ ~call.done
    /\ call' = Returned(call, generate_weekly_report(call.args[1], call.args[2], call.args[3]))
    /\ UNCHANGED session

NextReport == CallReport

SpecReport == InitReport /\ [][NextReport]_vars

\* C4: in every row of the summary table, a field the entry does not hold is
\* shown as the "unavailable" marker, and a field the entry holds with the
\* value zero is shown as a number.
C4_MissingIsMarkedZeroIsNumber ==
    call.fn = "generate_weekly_report" /\ call.done =>
        \A i \in 1..Len(call.ret.rows) : \A c \in SummaryColumns :
            LET e == Lookup(call.args[1], call.ret.rows[i].date)
                cell == call.ret.rows[i][c]
            IN  /\ c \notin DOMAIN e => cell = Dash
                /\ c \in DOMAIN e /\ e[c] # None /\ e[c][1] = 0 => cell.text = "number"

\* ------------------------------------------------------------ the Save Entry handler on one date

\* A diary file from an earlier session: one entry for the day, with an extra
\* food, without miles_walked and with a key the handler does not know.
LegacyEntry(date_str) ==
    LET saved == SaveEntryFields(get_entry(<<>>, date_str),
                     [FormInput(FoodDict("Oats", Num(90)), 2400, Num(70), Num(170))
                        EXCEPT !.extra_food = <<[name |-> "Snack", calories |-> Num(150),
                                                 protein |-> Zero]>>],
                     date_str)
    IN  Merge([mood |-> "good"],
              [k \in DOMAIN saved \ {"miles_walked"} |-> saved[k]])

EntryFiles == {NoFile, save_data(<<<<DateStr(FirstDay), LegacyEntry(DateStr(FirstDay))>>>>)}

\* An unlocked session on the Enter Daily Data page for the clock's day.
InitEntry ==
    /\ authenticated = TRUE
    /\ password_input = PASSCODE
    /\ file \in EntryFiles
    /\ data = Loaded(load_data(file))
    /\ page = "Enter Daily Data"
    /\ selected_date = DateStr(FirstDay)
    /\ now = FirstDay
    /\ rendered = Render(page, data.items, selected_date, now)
    /\ call = NoCall

NextEntry ==
    \E inp \in EntryInputs, extra_foods \in ExtraLists :
        SaveEntry([inp EXCEPT !.extra_food = extra_foods])

SpecEntry == InitEntry /\ [][NextEntry]_vars

SavedFields == {"total_calories", "calories_burned", "net_calories", "food", "extra_food"}

StoredEntries == {file.members[i][2] : i \in 1..Len(file.members)}

RAbs(x) == <<Abs(x[1]), x[2]>>

\* C2 as stated: every stored entry has net_calories equal to its stored
\* total_calories minus its stored calories_burned, rounded to one decimal.
C2_NetFromStoredFields ==
    \A e \in StoredEntries :
        SavedFields \subseteq DOMAIN e =>
            e.net_calories = Round1(RSub(e.total_calories, e.calories_burned))

\* C2 amended: every stored entry has net_calories equal to t - calories_burned
\* rounded to one decimal, t being the unrounded total (the macros' calories
\* of the stored food plus the extra foods' calories): a nearest tenth of the
\* exact difference, the even one when the difference is a tie the doubles
\* hold exactly; it is within 0.1 of the difference of the stored fields.
C2_NetFromUnroundedTotal ==
    \A e \in StoredEntries :
        SavedFields \subseteq DOMAIN e =>
            LET t == RAdd(calculate_macros(e.food).cal, SumField(e.extra_food, "calories"))
                x == RSub(t, e.calories_burned)
                off == RAbs(RSub(e.net_calories, x))
            IN  /\ RLeq(off, Rat(1, 20))
                /\ off = Rat(1, 20) /\ e.calories_burned[2] \in {1, 2}
                      => RMul(e.net_calories, Num(10))[1] % 2 = 0
                /\ RLeq(RAbs(RSub(e.net_calories,
                                   RSub(e.total_calories, e.calories_burned))), Rat(1, 10))

\* A quarter gram of PB Powder with 6 steps: stored total 1.2, burned 0.5 and
\* net 0.8.
C2_Witness ==
    \E e \in StoredEntries :
        /\ SavedFields \subseteq DOMAIN e
        /\ e.total_calories = Rat(6, 5)
        /\ e.calories_burned = Rat(1, 2)
        /\ e.net_calories = Rat(4, 5)

\* C7: the entry a Save Entry stores has every field the handler assigns
\* equal to what the same inputs give on a blank entry, whatever was stored
\* for the date before; and a Save Entry repeated with the same inputs leaves
\* the file as it was.
C7_EntryIsFunctionOfInputs ==
    [][rendered'.kind = "saved" =>
          LET k == rendered'.date
              e == Lookup(file'.members, k)
              fresh == SaveEntryFields(get_entry(<<>>, k), rendered'.inputs, k)
          IN  /\ fresh = [c \in DOMAIN fresh |-> e[c]]
              /\ rendered.kind = "saved" /\ rendered.inputs = rendered'.inputs
                    /\ rendered.date = rendered'.date
                    => file' = file]_vars

\* An entry saved over the earlier session's entry, whose total was not zero:
\* the unknown key is kept and the totals are those of the new inputs alone.
C7_Witness ==
    /\ rendered.kind = "saved"
    /\ rendered.overwrote
    /\ \E e \in StoredEntries :
          /\ "mood" \in DOMAIN e
          /\ e.total_calories = Rat(6, 5)
          /\ e.extra_food = <<[name |-> "", calories |-> Zero, protein |-> Zero]>>

====
